---- MODULE Spec2Model ----
(***************************************************************************)
(* Model of pvoutput-tariff: the time-window matcher is_time_in_period,    *)
(* the holiday lookup is_public_holiday and the tariff resolver            *)
(* get_current_tariff of uploader.py, with _validate_single_tariff of      *)
(* config_schema.py deciding which tables a validated configuration holds. *)
(*                                                                         *)
(* Representation.                                                         *)
(*   - A datetime.time is the tuple <<hour, minute, second>>; Python       *)
(*     orders times lexicographically on these fields.                     *)
(*   - An "HH:MM" string is the pair <<HH, MM>> of its ":"-separated       *)
(*     integer fields; ParseTime builds the time the code builds from it.  *)
(*   - A datetime.date is its proleptic ordinal (date.toordinal()), so     *)
(*     date.weekday() is (ordinal + 6) % 7, Monday = 0.                    *)
(*   - A dict is a sequence of [name, tariff] entries in insertion order;  *)
(*     dict objects live in `heap`, indexed by reference, so that a copy   *)
(*     and an alias are different things.                                  *)
(***************************************************************************)
EXTENDS Integers, Sequences, FiniteSets, TLC

----------------------------------------------------------------------------
(* Bounds of the model *)

\* hours of the clock times the model draws: 0..MaxHour
MaxHour == 1
\* a tariff table holds at most MaxTariffs tariffs besides 'offpeak'
MaxTariffs == 2
\* a tariff declares at most MaxPeriods time periods
MaxPeriods == 2
\* the model draws the calendar days 3 (a Wednesday) .. LastDay (a Sunday)
LastDay == 7
\* a caller repeats a finished call with the same arguments at most MaxRepeats times
MaxRepeats == 1

HourSet == 0 .. MaxHour
\* minutes of the clock times the model draws
MinuteSet == {0, 1}
\* seconds of a timestamp: on the minute, or half a minute past it
SecondSet == {0, 30}
DaySet == 3 .. LastDay

\* the "HH:MM" strings of the configuration
TimeStrSet == HourSet \X MinuteSet

----------------------------------------------------------------------------
(* datetime.time and is_time_in_period *)

\* time(h, m) built from the split fields of an "HH:MM" string: seconds are 0
ParseTime(str) == <<str[1], str[2], 0>>

\* a <= b on datetime.time values
TimeLE(a, b) ==
    \/ a[1] < b[1]
    \/ a[1] = b[1] /\ a[2] < b[2]
    \/ a[1] = b[1] /\ a[2] = b[2] /\ a[3] <= b[3]

\* mutant of is_time_in_period: the end bound is exclusive
is_time_in_period_excl(current_time, start_str, end_str) ==
    LET start_time == ParseTime(start_str)
        end_time == ParseTime(end_str)
    IN  IF TimeLE(start_time, end_time)
        THEN TimeLE(start_time, current_time) /\ TimeLE(current_time, end_time)
                                              /\ current_time # end_time
        ELSE TimeLE(start_time, current_time) \/ TimeLE(current_time, end_time)

is_time_in_period(current_time, start_str, end_str) ==
    LET start_time == ParseTime(start_str)
        end_time == ParseTime(end_str)
    IN  IF TimeLE(start_time, end_time)
        THEN TimeLE(start_time, current_time) /\ TimeLE(current_time, end_time)
        ELSE TimeLE(start_time, current_time) \/ TimeLE(current_time, end_time)

----------------------------------------------------------------------------
(* The holiday calendar and is_public_holiday *)

\* A holiday query (the public_holidays dict): None, or a dict with an
\* optional "country" and an optional "region".
NoneQuery == [isNone |-> TRUE, hasCountry |-> FALSE, country |-> "",
              hasRegion |-> FALSE, region |-> ""]
DictQuery(hasC, c, hasR, r) ==
    [isNone |-> FALSE, hasCountry |-> hasC, country |-> c,
     hasRegion |-> hasR, region |-> r]
EmptyQuery == DictQuery(FALSE, "", FALSE, "")
AUQuery == DictQuery(TRUE, "AU", FALSE, "")
NSWQuery == DictQuery(TRUE, "AU", TRUE, "NSW")
RegionOnlyQuery == DictQuery(FALSE, "", TRUE, "NSW")
EmptyCountryQuery == DictQuery(TRUE, "", TRUE, "NSW")
UnknownCountryQuery == DictQuery(TRUE, "XX", FALSE, "")
UnknownRegionQuery == DictQuery(TRUE, "AU", TRUE, "ZZ")

\* The holidays library knows country "AU" and its subdivision "NSW";
\* country_holidays raises NotImplementedError for anything else.
CalendarKnows(country, state) ==
    /\ country = "AU"
    /\ state \in {"None", "NSW"}

\* The days the calendar lists: day 5 (a Friday) and day 8 (a Monday)
\* everywhere in AU, and day 7 (a Sunday) too in NSW.
CountryHolidays(country, state) ==
    IF state = "NSW" THEN {5, 7, 8} ELSE {5, 8}

\* public_holidays.get("region"): None when the key is absent
RegionOf(public_holidays) ==
    IF public_holidays.hasRegion THEN public_holidays.region ELSE "None"

\* the early returns without `if not country`
HolidayLookupSkippedNoCountry(public_holidays) ==
    \/ public_holidays.isNone
    \/ ~public_holidays.hasCountry /\ ~public_holidays.hasRegion

\* `not public_holidays` (None or an empty dict) or `not country` (the key
\* absent, or an empty string): the calendar is not consulted
HolidayLookupSkipped(public_holidays) ==
    \/ public_holidays.isNone
    \/ ~public_holidays.hasCountry /\ ~public_holidays.hasRegion
    \/ ~public_holidays.hasCountry
    \/ public_holidays.country = ""

\* is_public_holiday raises (NotImplementedError from country_holidays)
HolidayLookupRaises(public_holidays) ==
    /\ ~HolidayLookupSkipped(public_holidays)
    /\ ~CalendarKnows(public_holidays.country, RegionOf(public_holidays))

\* the value is_public_holiday returns when it does not raise
is_public_holiday(public_holidays, current_date) ==
    IF HolidayLookupSkipped(public_holidays) THEN FALSE
    ELSE current_date \in CountryHolidays(public_holidays.country,
                                          RegionOf(public_holidays))

----------------------------------------------------------------------------
(* Tariffs *)

\* A start_date / end_date value: absent (no such key), a datetime.date, or
\* a string (an ISO date that denotes the day `ord`).
NoDate == [kind |-> "absent", ord |-> 0]
DateVal(d) == [kind |-> "date", ord |-> d]
StrVal(d) == [kind |-> "str", ord |-> d]

\* date.weekday()
Weekday(d) == (d + 6) % 7

Tariff(price, times, start_date, end_date, weekdays_only) ==
    [price |-> price, times |-> times, start_date |-> start_date,
     end_date |-> end_date, weekdays_only |-> weekdays_only]

\* outcomes of one pass of the loop body, and of a call
Continue == [status |-> "continue", price |-> 0, error |-> ""]
Returned(price) == [status |-> "returned", price |-> price, error |-> ""]
Raised(error) == [status |-> "raised", price |-> 0, error |-> error]
NoResult == [status |-> "none", price |-> 0, error |-> ""]

\* mutant of AnyPeriod: only the first period is tested
AnyPeriodFirstOnly(periods, current_time, i) ==
    /\ Len(periods) > 0
    /\ is_time_in_period(current_time, periods[1].start, periods[1].end)

\* any(is_time_in_period(now.time(), p["start"], p["end"]) for p in periods)
RECURSIVE AnyPeriod(_, _, _)
AnyPeriod(periods, current_time, i) ==
    IF i > Len(periods) THEN FALSE
    ELSE IF is_time_in_period(current_time, periods[i].start, periods[i].end)
         THEN TRUE
         ELSE AnyPeriod(periods, current_time, i + 1)

\* mutant of DateRangeCheck: the end of the season is exclusive
DateRangeCheckExclusive(tariff, d, price) ==
    LET s == tariff.start_date
        e == tariff.end_date
    IN  IF s.kind = "absent" THEN Raised("KeyError")
        ELSE IF s.kind = "str" THEN Raised("TypeError")
        ELSE IF ~(s.ord <= d) THEN Continue
        ELSE IF e.kind = "absent" THEN Raised("KeyError")
        ELSE IF e.kind = "str" THEN Raised("TypeError")
        ELSE IF d < e.ord THEN Returned(price)
        ELSE Continue

\* tariff["start_date"] <= now.date() <= tariff["end_date"]: a chained
\* comparison, the second half evaluated only when the first is true; a
\* missing key raises KeyError, a str compared with a date raises TypeError
DateRangeCheck(tariff, d, price) ==
    LET s == tariff.start_date
        e == tariff.end_date
    IN  IF s.kind = "absent" THEN Raised("KeyError")
        ELSE IF s.kind = "str" THEN Raised("TypeError")
        ELSE IF ~(s.ord <= d) THEN Continue
        ELSE IF e.kind = "absent" THEN Raised("KeyError")
        ELSE IF e.kind = "str" THEN Raised("TypeError")
        ELSE IF d <= e.ord THEN Returned(price)
        ELSE Continue

\* mutant of TariffStep: the holiday and weekday gates are applied to
\* every tariff, seasonal or not
TariffStepGateAll(tariff, public_holidays, current_datetime) ==
    LET d == current_datetime.date
        weekdays_only == (tariff.weekdays_only = "True")
        is_weekday == Weekday(d) < 5
    IN  IF ~AnyPeriod(tariff.times, current_datetime.time, 1) THEN Continue
        ELSE IF HolidayLookupRaises(public_holidays) THEN Raised("NotImplementedError")
        ELSE IF ~(/\ ~is_public_holiday(public_holidays, d)
                  /\ ((weekdays_only /\ is_weekday) \/ ~weekdays_only))
             THEN Continue
        ELSE IF tariff.start_date.kind = "absent" /\ tariff.end_date.kind = "absent"
             THEN Returned(tariff.price)
        ELSE DateRangeCheck(tariff, d, tariff.price)

\* the loop body with is_public_holiday called at its head, for every tariff
TariffStepLookupFirst(tariff, public_holidays, current_datetime) ==
    LET periods == tariff.times
        d == current_datetime.date
    IN  IF HolidayLookupRaises(public_holidays) THEN Raised("NotImplementedError")
        ELSE IF ~AnyPeriod(periods, current_datetime.time, 1) THEN Continue
        ELSE IF tariff.start_date.kind = "absent" /\ tariff.end_date.kind = "absent"
             THEN Returned(tariff.price)
        ELSE LET weekdays_only == (tariff.weekdays_only = "True")
                 is_weekday == Weekday(d) < 5
             IN  IF /\ ~is_public_holiday(public_holidays, d)
                    /\ ((weekdays_only /\ is_weekday) \/ ~weekdays_only)
                 THEN DateRangeCheck(tariff, d, tariff.price)
                 ELSE Continue

\* the loop body with the seasonal conditions taken on the day an overnight
\* window opened: the day before, at a time up to the window's end
TariffStepOpeningDate(tariff, public_holidays, current_datetime) ==
    LET periods == tariff.times
        wrapped == \E i \in 1 .. Len(periods) :
                       /\ ~TimeLE(ParseTime(periods[i].start), ParseTime(periods[i].end))
                       /\ TimeLE(current_datetime.time, ParseTime(periods[i].end))
        d == IF wrapped THEN current_datetime.date - 1 ELSE current_datetime.date
    IN  IF ~AnyPeriod(periods, current_datetime.time, 1) THEN Continue
        ELSE IF tariff.start_date.kind = "absent" /\ tariff.end_date.kind = "absent"
             THEN Returned(tariff.price)
        ELSE LET weekdays_only == (tariff.weekdays_only = "True")
                 is_weekday == Weekday(d) < 5
             IN  IF HolidayLookupRaises(public_holidays)
                 THEN Raised("NotImplementedError")
                 ELSE IF /\ ~is_public_holiday(public_holidays, d)
                         /\ ((weekdays_only /\ is_weekday) \/ ~weekdays_only)
                      THEN DateRangeCheck(tariff, d, tariff.price)
                      ELSE Continue

\* the loop body without the weekday condition of line 107
TariffStepAnyWeekday(tariff, public_holidays, current_datetime) ==
    LET periods == tariff.times
        d == current_datetime.date
    IN  IF ~AnyPeriod(periods, current_datetime.time, 1) THEN Continue
        ELSE IF tariff.start_date.kind = "absent" /\ tariff.end_date.kind = "absent"
             THEN Returned(tariff.price)
        ELSE IF HolidayLookupRaises(public_holidays)
             THEN Raised("NotImplementedError")
             ELSE IF ~is_public_holiday(public_holidays, d)
                  THEN DateRangeCheck(tariff, d, tariff.price)
                  ELSE Continue

\* one pass of the loop body of get_current_tariff over `tariff`
TariffStep(tariff, public_holidays, current_datetime) ==
    LET periods == tariff.times
        d == current_datetime.date
    IN  IF ~AnyPeriod(periods, current_datetime.time, 1) THEN Continue
        ELSE IF tariff.start_date.kind = "absent" /\ tariff.end_date.kind = "absent"
             THEN Returned(tariff.price)
        ELSE LET weekdays_only == (tariff.weekdays_only = "True")
                 is_weekday == Weekday(d) < 5
             IN  IF HolidayLookupRaises(public_holidays)
                 THEN Raised("NotImplementedError")
                 ELSE IF /\ ~is_public_holiday(public_holidays, d)
                         /\ ((weekdays_only /\ is_weekday) \/ ~weekdays_only)
                      THEN DateRangeCheck(tariff, d, tariff.price)
                      ELSE Continue

----------------------------------------------------------------------------
(* Tariff tables *)

Entry(name, tariff) == [name |-> name, tariff |-> tariff]

\* names and prices of the tariffs besides 'offpeak', by position
NameSeq == <<"super_offpeak", "shoulder", "peak", "peak_winter">>
PriceSeq == <<10, 40, 70, 60>>
OffpeakPrice == 30

\* the windows the tables declare: a daytime window 00:01-01:00 and an
\* overnight window 01:00-00:00 (they share the instant 01:00)
DayWindow == [start |-> <<0, 1>>, end |-> <<1, 0>>]
NightWindow == [start |-> <<1, 0>>, end |-> <<0, 0>>]
WindowSet == {DayWindow, NightWindow}

\* the lists of at most n windows
PeriodLists(n) == UNION {[1 .. k -> WindowSet] : k \in 0 .. n}

\* the seasonal range the tables declare: Thursday 4 .. Saturday 6
SeasonStart == DateVal(4)
SeasonEnd == DateVal(6)

\* every tariff of the data model: any period list, with or without the
\* seasonal range, weekdays_only absent, true or false
RichTariffs(price) ==
    { Tariff(price, times, dates[1], dates[2], wd) :
        times \in PeriodLists(MaxPeriods),
        dates \in {<<NoDate, NoDate>>, <<SeasonStart, SeasonEnd>>},
        wd \in {"absent", "True", "False"} }

\* the tariffs of the longer tables: one window each
BasicTariffs(price) ==
    { Tariff(price, <<DayWindow>>, NoDate, NoDate, "absent"),
      Tariff(price, <<NightWindow>>, NoDate, NoDate, "True"),
      Tariff(price, <<DayWindow>>, SeasonStart, SeasonEnd, "True"),
      Tariff(price, <<NightWindow>>, SeasonStart, SeasonEnd, "absent") }

\* what an 'offpeak' entry may declare: nothing, or windows and a season
\* given as strings
OffpeakTariffs ==
    { Tariff(OffpeakPrice, <<>>, NoDate, NoDate, "absent"),
      Tariff(OffpeakPrice, <<DayWindow, NightWindow>>, StrVal(4), StrVal(6), "absent") }

\* the dict `seq` with `entry` inserted after its first `pos` entries
InsertAt(seq, pos, entry) ==
    SubSeq(seq, 1, pos) \o <<entry>> \o SubSeq(seq, pos + 1, Len(seq))

\* the tables of exactly n tariffs drawn (by position) from tariffs(price),
\* without 'offpeak' or with it at any position
TablesOf(tariffs(_), n) ==
    LET plain == { [i \in 1 .. n |-> Entry(NameSeq[i], f[i])] :
                     f \in { g \in [1 .. n -> UNION {tariffs(PriceSeq[i]) : i \in 1 .. n}] :
                             \A i \in 1 .. n : g[i].price = PriceSeq[i] } }
    IN  plain \cup { InsertAt(t, pos, Entry("offpeak", o)) :
                       t \in plain, pos \in 0 .. n, o \in OffpeakTariffs }

\* the tables the resolver is run on
TableSet ==
    TablesOf(RichTariffs, 0) \cup TablesOf(RichTariffs, 1)
        \cup UNION {TablesOf(BasicTariffs, n) : n \in 2 .. MaxTariffs}

\* the holiday queries (the public_holidays section; main passes {} when
\* the section is absent) and the timestamps the resolver is run on
QuerySet == {EmptyQuery, NSWQuery}
DatetimeSet == [date : DaySet, time : HourSet \X MinuteSet \X SecondSet]

----------------------------------------------------------------------------
(* State *)

\* the callers of get_current_tariff; the sequential program has one
NumThreads == 2
Threads == 1 .. NumThreads
MainThread == 1

\* reference of the caller's tariff table; thread t allocates at reference t
TableRef == 0
Refs == 0 .. NumThreads

NoTariff == [present |-> FALSE, tariff |-> Tariff(0, <<>>, NoDate, NoDate, "absent")]
SomeTariff(tariff) == [present |-> TRUE, tariff |-> tariff]
NoArgs == [public_holidays |-> NoneQuery,
           current_datetime |-> [date |-> 0, time |-> <<0, 0, 0>>]]
NoPeriodArgs == [current_time |-> <<0, 0, 0>>, start_str |-> <<0, 0>>, end_str |-> <<0, 0>>]

VARIABLES
    heap,               \* the dict objects: reference -> entries in insertion order
    table0,             \* the caller's table as it was constructed
    public_holidays,    \* the holiday query of the configuration
    pc,                 \* per caller: where its call of get_current_tariff stands
    args,               \* per caller: public_holidays and current_datetime of the call
    tariff_config_copy, \* per caller: the reference held by tariff_config_copy
    offpeak,            \* per caller: the local `offpeak` (None or a tariff)
    idx,                \* per caller: position of the for loop in the dict
    result,             \* per caller: what the call returned or raised
    prev,               \* per caller: the result of the same call made just before
    repeats,            \* per caller: how often the current call has been repeated
    period_args,        \* arguments of a direct call of is_time_in_period
    period_result,      \* what that call returned: "none" before it, "True", "False"
    holiday_args,       \* arguments of a direct call of is_public_holiday
    holiday_result,     \* what that call returned or raised: "none" before it
    holiday_consulted,  \* whether that call reached holidays.country_holidays
    validate_args,      \* the configuration of a direct call of validate_config
    validate_result,    \* what that call raised, or that it returned
    send_args,          \* arguments of the call of send_price_to_pvoutput
    post,               \* what requests.post does with the request of that call
    request,            \* the body posted to the PVOutput service
    send_result,        \* what send_price_to_pvoutput returned or raised
    env,                \* what main is run with: credentials and the configuration file
    main_pc,            \* where the run of main stands
    load_result,        \* what load_config returned or raised
    main_config,        \* main's local `config`
    current_tariff,     \* main's local `current_tariff`
    trace,              \* the steps main has taken, in order
    exit_code,          \* the exit status of the process, -1 while it runs
    message             \* the ClickException main ended with

vars == <<heap, table0, public_holidays, pc, args, tariff_config_copy, offpeak, idx,
          result, prev, repeats, period_args, period_result,
          holiday_args, holiday_result, holiday_consulted,
          validate_args, validate_result, send_args, post, request, send_result,
          env, main_pc, load_result, main_config, current_tariff, trace, exit_code, message>>

\* the variables of the calls made outside get_current_tariff and
\* is_time_in_period, and their values before any such call
holidayVars == <<holiday_args, holiday_result, holiday_consulted>>
validateVars == <<validate_args, validate_result>>
sendVars == <<send_args, post, request, send_result>>
mainVars == <<env, main_pc, load_result, main_config, current_tariff, trace, exit_code, message>>
aux == <<holidayVars, validateVars, sendVars>>
ext == <<aux, mainVars>>

NoHolidayArgs == [public_holidays |-> NoneQuery, current_date |-> 0]
HolidayIdle ==
    /\ holiday_args = NoHolidayArgs
    /\ holiday_result = "none"
    /\ holiday_consulted = FALSE

\* exceptions carry their type and their message (a text and the name put
\* into it); NoError stands for a normal return, Pending for no call yet
Exception(type, text, arg) == [type |-> type, text |-> text, arg |-> arg]
ValueError(text, arg) == Exception("ValueError", text, arg)
NoError == Exception("None", "", "")
Pending == Exception("pending", "", "")

\* a configuration as yaml.safe_load returns it: None, a list, or a dict
\* whose sections are absent or hold a value
NoParam == [isStr |-> FALSE, prefix |-> "", digits |-> FALSE, num |-> 0]
NoPvoutput == [present |-> FALSE, kind |-> "none", hasParam |-> FALSE, param |-> NoParam]
NoTariffs == [present |-> FALSE, kind |-> "none", table |-> <<>>]
NoHolidays == [present |-> FALSE, query |-> NoneQuery]
NoConfig == [kind |-> "none", pvoutput |-> NoPvoutput, tariffs |-> NoTariffs,
             public_holidays |-> NoHolidays]

ValidateIdle ==
    /\ validate_args = NoConfig
    /\ validate_result = Pending

\* the response of the service, and what requests.post does: it raises, or
\* it returns a response
Response(status_code) == [status_code |-> status_code]
NoResponse == Response(0)
PostRaises(e) == [raises |-> e, response |-> NoResponse]
PostReturns(status_code) == [raises |-> NoError, response |-> Response(status_code)]

\* outcomes of send_price_to_pvoutput
SendReturned(response) == [status |-> "returned", response |-> response, error |-> NoError]
SendRaised(e) == [status |-> "raised", response |-> NoResponse, error |-> e]
NoSendResult == [status |-> "none", response |-> NoResponse, error |-> NoError]

NoSendArgs == [extended_param |-> NoParam, price |-> 0,
               now |-> [date |-> 0, time |-> <<0, 0, 0>>]]
NoRequest == [param |-> NoParam, price |-> 0, d |-> [format |-> "", ord |-> 0], t |-> <<0, 0>>]

SendIdle ==
    /\ send_args = NoSendArgs
    /\ post = PostReturns(0)
    /\ request = NoRequest
    /\ send_result = NoSendResult

\* the configuration file: missing, not YAML, or parsed into a value
FileMissing == [state |-> "missing", config |-> NoConfig]
FileMalformed == [state |-> "malformed", config |-> NoConfig]
FileOf(parsed) == [state |-> "parsed", config |-> parsed]
NoEnv == [api_key |-> "None", system_id |-> "None", file |-> FileMissing]

\* outcomes of load_config
LoadReturned(parsed) == [status |-> "returned", config |-> parsed, error |-> NoError]
LoadRaised(e) == [status |-> "raised", config |-> NoConfig, error |-> e]
NoLoadResult == [status |-> "none", config |-> NoConfig, error |-> NoError]

MainIdle ==
    /\ env = NoEnv
    /\ main_pc = "idle"
    /\ load_result = NoLoadResult
    /\ main_config = NoConfig
    /\ current_tariff = 0
    /\ trace = <<>>
    /\ exit_code = -1
    /\ message = NoError
ExtIdle == HolidayIdle /\ ValidateIdle /\ SendIdle /\ MainIdle

\* mutant of DictCopyRef: no copy is made, the name is bound to the same dict
DictAliasRef(t, ref) == ref

\* every call keeps its copy in one and the same dict object
DictCopyRefShared(t, ref) == MainThread

\* dict.copy(): a new dict object with the same entries; the reference of
\* the new object and the heap that holds it
DictCopyRef(t, ref) == t
DictCopyHeap(h, t, ref) == [h EXCEPT ![DictCopyRef(t, ref)] = h[ref]]

\* position of the key in the dict, 0 when absent
RECURSIVE KeyIndex(_, _, _)
KeyIndex(dict, key, i) ==
    IF i > Len(dict) THEN 0
    ELSE IF dict[i].name = key THEN i
    ELSE KeyIndex(dict, key, i + 1)

\* a fallback taken by position: the value of the key only when it is the
\* last entry of the dict
PopValueLast(dict, key) ==
    IF Len(dict) > 0 /\ dict[Len(dict)].name = key
    THEN SomeTariff(dict[Len(dict)].tariff) ELSE NoTariff

\* dict.pop(key, None): the value removed (None when the key is absent)
\* and the dict left behind
PopValue(dict, key) ==
    LET k == KeyIndex(dict, key, 1)
    IN  IF k = 0 THEN NoTariff ELSE SomeTariff(dict[k].tariff)
\* mutant of PopRest: the key is read but not removed (dict.get)
PopRestKeep(dict, key) == dict

PopRest(dict, key) ==
    LET k == KeyIndex(dict, key, 1)
    IN  IF k = 0 THEN dict
        ELSE SubSeq(dict, 1, k - 1) \o SubSeq(dict, k + 1, Len(dict))

\* mutant of ItemAt: the items are visited last to first
ItemAtReversed(dict, i) == dict[Len(dict) + 1 - i]

\* mutant of NextIdx: the loop is left after the first tariff that is skipped
NextIdxBreak(dict, i) == Len(dict) + 1

\* dict.items(): the i-th item in insertion order, and the position after it
ItemAt(dict, i) == dict[i]
NextIdx(dict, i) == i + 1

\* mutant of FallbackResult: offpeak["price"] is read without testing offpeak
FallbackResultNoGuard(o) ==
    IF o.present THEN Returned(o.tariff.price) ELSE Raised("TypeError")

\* float(offpeak["price"]) if offpeak else 0.0
FallbackResult(o) == IF o.present THEN Returned(o.tariff.price) ELSE Returned(0)

\* no call of get_current_tariff or is_time_in_period has been made
InitCalls ==
    /\ table0 = heap[TableRef]
    /\ pc = [t \in Threads |-> "idle"]
    /\ args = [t \in Threads |-> NoArgs]
    /\ tariff_config_copy = [t \in Threads |-> TableRef]
    /\ offpeak = [t \in Threads |-> NoTariff]
    /\ idx = [t \in Threads |-> 0]
    /\ result = [t \in Threads |-> NoResult]
    /\ prev = [t \in Threads |-> NoResult]
    /\ repeats = [t \in Threads |-> 0]

HeapOf(table) == [r \in Refs |-> IF r = TableRef THEN table ELSE <<>>]

\* no table, and neither get_current_tariff nor is_time_in_period is called
CallsIdle ==
    /\ heap = HeapOf(<<>>)
    /\ public_holidays = EmptyQuery
    /\ InitCalls
    /\ period_args = NoPeriodArgs
    /\ period_result = "none"

callVars == <<heap, table0, public_holidays, pc, args, tariff_config_copy, offpeak, idx,
              result, prev, repeats, period_args, period_result>>

\* a tariff table of the data model and a holiday query the calendar answers
Init ==
    /\ \E table \in TableSet : heap = HeapOf(table)
    /\ public_holidays \in QuerySet
    /\ InitCalls
    /\ period_args = NoPeriodArgs
    /\ period_result = "none"
    /\ ExtIdle

----------------------------------------------------------------------------
(* get_current_tariff, statement by statement *)

\* entry of get_current_tariff(heap[TableRef], public_holidays, now) and its
\* line 88: tariff_config_copy = tariff_config.copy()
Enter(t, now) ==
    /\ args' = [args EXCEPT ![t] = [public_holidays |-> public_holidays,
                                    current_datetime |-> now]]
    /\ tariff_config_copy' = [tariff_config_copy EXCEPT ![t] = DictCopyRef(t, TableRef)]
    /\ heap' = DictCopyHeap(heap, t, TableRef)
    /\ offpeak' = [offpeak EXCEPT ![t] = NoTariff]
    /\ idx' = [idx EXCEPT ![t] = 0]
    /\ result' = [result EXCEPT ![t] = NoResult]
    /\ pc' = [pc EXCEPT ![t] = "pop"]
    /\ UNCHANGED <<table0, public_holidays, period_args, period_result, aux>>

\* a caller calls get_current_tariff on the table, at one of the timestamps
CallAt(t, timestamps) ==
    /\ pc[t] = "idle"
    /\ \E now \in timestamps : Enter(t, now)
    /\ prev' = [prev EXCEPT ![t] = NoResult]
    /\ repeats' = [repeats EXCEPT ![t] = 0]
    /\ UNCHANGED mainVars

Call(t) == CallAt(t, DatetimeSet)

\* line 90: offpeak = tariff_config_copy.pop("offpeak", None)
Pop(t) ==
    /\ pc[t] = "pop"
    /\ LET ref == tariff_config_copy[t]
       IN  /\ offpeak' = [offpeak EXCEPT ![t] = PopValue(heap[ref], "offpeak")]
           /\ heap' = [heap EXCEPT ![ref] = PopRest(heap[ref], "offpeak")]
    /\ idx' = [idx EXCEPT ![t] = 1]
    /\ pc' = [pc EXCEPT ![t] = "loop"]
    /\ UNCHANGED <<table0, public_holidays, args, tariff_config_copy, result, prev,
                   repeats, period_args, period_result, ext>>

\* lines 92-116: one pass of the for loop over tariff_config_copy.items()
LoopStep(t) ==
    /\ pc[t] = "loop"
    /\ idx[t] <= Len(heap[tariff_config_copy[t]])
    /\ LET dict == heap[tariff_config_copy[t]]
           tariff == ItemAt(dict, idx[t]).tariff
           out == TariffStep(tariff, args[t].public_holidays, args[t].current_datetime)
       IN  IF out.status = "continue"
           THEN /\ idx' = [idx EXCEPT ![t] = NextIdx(dict, idx[t])]
                /\ UNCHANGED <<pc, result>>
           ELSE /\ result' = [result EXCEPT ![t] = out]
                /\ pc' = [pc EXCEPT ![t] = "done"]
                /\ UNCHANGED idx
    /\ UNCHANGED <<heap, table0, public_holidays, args, tariff_config_copy, offpeak,
                   prev, repeats, period_args, period_result, ext>>

\* line 118: the loop is exhausted, return the fallback price
Fallback(t) ==
    /\ pc[t] = "loop"
    /\ idx[t] > Len(heap[tariff_config_copy[t]])
    /\ result' = [result EXCEPT ![t] = FallbackResult(offpeak[t])]
    /\ pc' = [pc EXCEPT ![t] = "done"]
    /\ UNCHANGED <<heap, table0, public_holidays, args, tariff_config_copy, offpeak, idx,
                   prev, repeats, period_args, period_result, ext>>

\* the caller has the result; the call's frame and its copy are dropped
Return(t) ==
    /\ pc[t] = "done"
    /\ pc' = [pc EXCEPT ![t] = "idle"]
    /\ heap' = [heap EXCEPT ![t] = IF tariff_config_copy[t] = t THEN <<>> ELSE @]
    /\ args' = [args EXCEPT ![t] = NoArgs]
    /\ tariff_config_copy' = [tariff_config_copy EXCEPT ![t] = TableRef]
    /\ offpeak' = [offpeak EXCEPT ![t] = NoTariff]
    /\ idx' = [idx EXCEPT ![t] = 0]
    /\ result' = [result EXCEPT ![t] = NoResult]
    /\ prev' = [prev EXCEPT ![t] = NoResult]
    /\ repeats' = [repeats EXCEPT ![t] = 0]
    /\ UNCHANGED <<table0, public_holidays, period_args, period_result, ext>>

\* the caller calls again with the same table, holiday query and timestamp
Again(t) ==
    /\ pc[t] = "done"
    /\ repeats[t] < MaxRepeats
    /\ Enter(t, args[t].current_datetime)
    /\ prev' = [prev EXCEPT ![t] = result[t]]
    /\ repeats' = [repeats EXCEPT ![t] = repeats[t] + 1]
    /\ UNCHANGED mainVars

Step(t) ==
    \/ Call(t)
    \/ Pop(t)
    \/ LoopStep(t)
    \/ Fallback(t)
    \/ Return(t)

\* the program as it is: one caller, each call with a timestamp of its own
Next == Step(MainThread)

Spec == Init /\ [][Next]_vars

\* one caller that may repeat a finished call with the same arguments
NextRepeat == Step(MainThread) \/ Again(MainThread)

SpecRepeat == Init /\ [][NextRepeat]_vars

----------------------------------------------------------------------------
(* get_current_tariff as a function of its arguments *)

\* lines 92-118 from position i of the copy on
RECURSIVE TariffLoop(_, _, _, _, _)
TariffLoop(dict, i, off, holidays_query, current_datetime) ==
    IF i > Len(dict) THEN FallbackResult(off)
    ELSE LET out == TariffStep(ItemAt(dict, i).tariff, holidays_query, current_datetime)
         IN  IF out.status = "continue"
             THEN TariffLoop(dict, NextIdx(dict, i), off, holidays_query, current_datetime)
             ELSE out

\* lines 88-118: what one call, running alone, returns or raises
get_current_tariff(tariff_config, holidays_query, current_datetime) ==
    TariffLoop(PopRest(tariff_config, "offpeak"), 1, PopValue(tariff_config, "offpeak"),
               holidays_query, current_datetime)

----------------------------------------------------------------------------
(* callers on several threads sharing one table *)

\* the shared table: a seasonal weekday tariff, a plain overnight tariff,
\* and 'offpeak' at any position
ConcTableSet ==
    { InsertAt(<<Entry(NameSeq[1], Tariff(PriceSeq[1], <<DayWindow>>,
                                          SeasonStart, SeasonEnd, "True")),
                 Entry(NameSeq[2], Tariff(PriceSeq[2], <<NightWindow>>,
                                          NoDate, NoDate, "absent"))>>,
               pos, Entry("offpeak", Tariff(OffpeakPrice, <<>>, NoDate, NoDate, "absent"))) :
        pos \in 0 .. 2 }

\* timestamps of the concurrent calls: a Thursday in season and a Sunday,
\* inside the daytime window and outside every window
ConcDatetimeSet == [date : {4, 7}, time : {<<0, 1, 0>>, <<0, 0, 30>>}]

InitConc ==
    /\ \E table \in ConcTableSet : heap = HeapOf(table)
    /\ public_holidays \in QuerySet
    /\ InitCalls
    /\ period_args = NoPeriodArgs
    /\ period_result = "none"
    /\ ExtIdle

CallConc(t) == CallAt(t, ConcDatetimeSet)

\* any thread takes the next step of its call
NextConc ==
    \E t \in Threads :
        \/ CallConc(t)
        \/ Pop(t)
        \/ LoopStep(t)
        \/ Fallback(t)
        \/ Return(t)

SpecConc == InitConc /\ [][NextConc]_vars

----------------------------------------------------------------------------
(* is_time_in_period called on its own *)

ClockSet == HourSet \X MinuteSet \X SecondSet

InitPeriod ==
    /\ heap = HeapOf(<<>>)
    /\ public_holidays = EmptyQuery
    /\ InitCalls
    /\ period_args \in [current_time : ClockSet, start_str : TimeStrSet, end_str : TimeStrSet]
    /\ period_result = "none"
    /\ ExtIdle

CallPeriod ==
    /\ period_result = "none"
    /\ period_result' = IF is_time_in_period(period_args.current_time,
                                            period_args.start_str, period_args.end_str)
                        THEN "True" ELSE "False"
    /\ UNCHANGED <<heap, table0, public_holidays, pc, args, tariff_config_copy, offpeak,
                   idx, result, prev, repeats, period_args, ext>>

NextPeriod == CallPeriod

SpecPeriod == InitPeriod /\ [][NextPeriod]_vars

----------------------------------------------------------------------------
(* is_public_holiday called on its own *)

\* the queries a caller can hand over: None, or a dict with or without a
\* country ("" for an empty one) and with or without a region
HolidayQuerySet ==
    {NoneQuery} \cup
    { DictQuery(c # "absent", IF c \in {"absent", "empty"} THEN "" ELSE c,
                r # "absent", IF r = "absent" THEN "" ELSE r) :
        c \in {"absent", "empty", "AU", "XX"}, r \in {"absent", "NSW", "ZZ"} }

InitHoliday ==
    /\ CallsIdle
    /\ holiday_args \in [public_holidays : HolidayQuerySet, current_date : DaySet]
    /\ holiday_result = "none"
    /\ holiday_consulted = FALSE
    /\ ValidateIdle
    /\ SendIdle
    /\ MainIdle

\* is_public_holiday(public_holidays, current_date), lines 35-43
CallHoliday ==
    /\ holiday_result = "none"
    /\ holiday_consulted' = ~HolidayLookupSkipped(holiday_args.public_holidays)
    /\ holiday_result' =
           IF HolidayLookupRaises(holiday_args.public_holidays)
           THEN "NotImplementedError"
           ELSE IF is_public_holiday(holiday_args.public_holidays,
                                     holiday_args.current_date)
                THEN "True" ELSE "False"
    /\ UNCHANGED <<callVars, holiday_args, validateVars, sendVars, mainVars>>

NextHoliday == CallHoliday

SpecHoliday == InitHoliday /\ [][NextHoliday]_vars

----------------------------------------------------------------------------
(* validate_config, and the resolver run on what it accepts *)

\* date.fromisoformat(v) for a string, v itself for a date
ParsedDate(v) == v.ord

\* _validate_time_format: two fields, hour 0-23, minute 0-59
ValidTimeFormat(str) ==
    /\ Len(str) = 2
    /\ ~(str[1] < 0 \/ str[1] > 23)
    /\ ~(str[2] < 0 \/ str[2] > 59)

\* _validate_single_tariff raises nothing
ValidSingleTariff(tariff) ==
    LET has_seasonal == tariff.start_date.kind # "absent" \/ tariff.end_date.kind # "absent"
    IN  /\ ~(tariff.price < 0)
        /\ \A i \in 1 .. Len(tariff.times) :
               ValidTimeFormat(tariff.times[i].start) /\ ValidTimeFormat(tariff.times[i].end)
        /\ has_seasonal =>
               /\ tariff.start_date.kind # "absent"
               /\ tariff.end_date.kind # "absent"
               /\ tariff.start_date.kind \in {"str", "date"}
               /\ tariff.end_date.kind \in {"str", "date"}
               /\ ~(ParsedDate(tariff.start_date) >= ParsedDate(tariff.end_date))
        /\ tariff.weekdays_only \in {"absent", "True", "False"}

\* _validate_tariffs_config raises nothing
ValidTariffsConfig(table) ==
    /\ Len(table) # 0
    /\ KeyIndex(table, "offpeak", 1) # 0
    /\ \A i \in 1 .. Len(table) : ValidSingleTariff(table[i].tariff)

\* _validate_public_holidays_config raises nothing
ValidPublicHolidaysConfig(q) ==
    /\ ~q.isNone
    /\ q.hasCountry
    /\ q.country # ""

\* the tariffs offered to validation: a window or none, each seasonal
\* field absent, a date or a string
AnyTariffs(price) ==
    { Tariff(price, times, sd, ed, wd) :
        times \in PeriodLists(1),
        sd \in {NoDate, DateVal(4), DateVal(6), StrVal(4), StrVal(6)},
        ed \in {NoDate, DateVal(4), DateVal(6), StrVal(4), StrVal(6)},
        wd \in {"absent", "True"} }

CandidateTables == TablesOf(AnyTariffs, 0) \cup TablesOf(AnyTariffs, 1)
CandidateQueries ==
    {NoneQuery, EmptyQuery, AUQuery, NSWQuery, RegionOnlyQuery, EmptyCountryQuery,
     UnknownCountryQuery, UnknownRegionQuery}

ValidatedTables == {table \in CandidateTables : ValidTariffsConfig(table)}
\* main passes `public_holidays or {}`: {} when the section is absent
ValidatedQueries ==
    {EmptyQuery} \cup {q \in CandidateQueries : ValidPublicHolidaysConfig(q)}

\* a configuration that validate_config accepted
InitValidated ==
    /\ \E table \in ValidatedTables : heap = HeapOf(table)
    /\ public_holidays \in ValidatedQueries
    /\ InitCalls
    /\ period_args = NoPeriodArgs
    /\ period_result = "none"
    /\ ExtIdle

SpecValidated == InitValidated /\ [][Next]_vars

----------------------------------------------------------------------------
(* validate_config with the errors it raises *)

\* a seasonal field holding a string that is no ISO date, or a value that
\* is neither a string nor a date
BadStrVal == [kind |-> "badstr", ord |-> 0]
OtherVal == [kind |-> "other", ord |-> 0]

\* extended_param values: a string by its first character, whether the
\* rest is all digits, and the number the rest denotes
Param(prefix, digits, num) ==
    [isStr |-> TRUE, prefix |-> prefix, digits |-> digits, num |-> num]

\* _validate_pvoutput_config
validate_pvoutput_config(pvoutput_config) ==
    IF pvoutput_config.kind # "dict"
    THEN ValueError("pvoutput configuration must be a dictionary", "")
    ELSE IF ~pvoutput_config.hasParam
    THEN ValueError("pvoutput configuration must include 'extended_param'", "")
    ELSE IF ~pvoutput_config.param.isStr
    THEN ValueError("extended_param must be a string", "")
    ELSE IF pvoutput_config.param.prefix # "v" \/ ~pvoutput_config.param.digits
    THEN ValueError("extended_param must be in format 'v1' to 'v12'", "")
    ELSE IF pvoutput_config.param.num < 1 \/ pvoutput_config.param.num > 12
    THEN ValueError("extended_param must be between v1 and v12", "")
    ELSE NoError

\* lines 118-132 for one of the two fields: the error of its conversion
SeasonalFieldError(tariff_name, field, v) ==
    IF v.kind = "str" THEN NoError
    ELSE IF v.kind = "badstr"
    THEN ValueError(IF field = "start_date"
                    THEN "Tariff '{tariff_name}' start_date has invalid format"
                    ELSE "Tariff '{tariff_name}' end_date has invalid format",
                    tariff_name)
    ELSE IF v.kind # "date"
    THEN ValueError(IF field = "start_date"
                    THEN "Tariff '{tariff_name}' start_date must be a date or date string"
                    ELSE "Tariff '{tariff_name}' end_date must be a date or date string",
                    tariff_name)
    ELSE NoError

\* start_date >= end_date with `>` in place of `>=`
SeasonOutOfOrderStrict(start_date, end_date) == start_date > end_date

\* line 134: start_date >= end_date, on the converted values
SeasonOutOfOrder(start_date, end_date) == start_date >= end_date

\* _validate_single_tariff
validate_single_tariff(tariff_name, tariff_config) ==
    LET has_seasonal == \/ tariff_config.start_date.kind # "absent"
                        \/ tariff_config.end_date.kind # "absent"
    IN  IF tariff_config.price < 0
        THEN ValueError("Tariff '{tariff_name}' price cannot be negative", tariff_name)
        ELSE IF \E i \in 1 .. Len(tariff_config.times) :
                    \/ ~ValidTimeFormat(tariff_config.times[i].start)
                    \/ ~ValidTimeFormat(tariff_config.times[i].end)
        THEN ValueError("Tariff '{tariff_name}' time period {index} {field} has invalid time format",
                        tariff_name)
        ELSE IF has_seasonal /\ (\/ tariff_config.start_date.kind = "absent"
                                 \/ tariff_config.end_date.kind = "absent")
        THEN ValueError("Tariff '{tariff_name}' with seasonal dates must have both start_date and end_date",
                        tariff_name)
        ELSE IF has_seasonal
                /\ SeasonalFieldError(tariff_name, "start_date",
                                      tariff_config.start_date) # NoError
        THEN SeasonalFieldError(tariff_name, "start_date", tariff_config.start_date)
        ELSE IF has_seasonal
                /\ SeasonalFieldError(tariff_name, "end_date",
                                      tariff_config.end_date) # NoError
        THEN SeasonalFieldError(tariff_name, "end_date", tariff_config.end_date)
        ELSE IF has_seasonal /\ SeasonOutOfOrder(ParsedDate(tariff_config.start_date),
                                                 ParsedDate(tariff_config.end_date))
        THEN ValueError("Tariff '{tariff_name}' start_date must be before end_date",
                        tariff_name)
        ELSE IF tariff_config.weekdays_only \notin {"absent", "True", "False"}
        THEN ValueError("Tariff '{tariff_name}' weekdays_only must be a boolean", tariff_name)
        ELSE NoError

\* lines 70-71: the first error among the tariffs from position i on
RECURSIVE ValidateEachTariff(_, _)
ValidateEachTariff(table, i) ==
    IF i > Len(table) THEN NoError
    ELSE LET e == validate_single_tariff(table[i].name, table[i].tariff)
         IN  IF e # NoError THEN e ELSE ValidateEachTariff(table, i + 1)

\* a validator that never misses the fallback
MissingFallbackNever(table) == FALSE

\* line 66: "offpeak" not in tariffs_config
MissingFallback(table) == KeyIndex(table, "offpeak", 1) = 0

\* _validate_tariffs_config
validate_tariffs_config(tariffs_config) ==
    IF tariffs_config.kind # "dict"
    THEN ValueError("tariffs configuration must be a dictionary", "")
    ELSE IF Len(tariffs_config.table) = 0
    THEN ValueError("tariffs configuration cannot be empty", "")
    ELSE IF MissingFallback(tariffs_config.table)
    THEN ValueError("tariffs must include an 'offpeak' tariff as fallback", "")
    ELSE ValidateEachTariff(tariffs_config.table, 1)

\* _validate_public_holidays_config
validate_public_holidays_config(holidays_config) ==
    IF holidays_config.isNone
    THEN ValueError("public_holidays configuration must be a dictionary", "")
    ELSE IF ~holidays_config.hasCountry
    THEN ValueError("public_holidays must have a 'country' field", "")
    ELSE IF holidays_config.country = ""
    THEN ValueError("public_holidays country cannot be empty", "")
    ELSE NoError

\* validate_config: the ValueError it raises, NoError when it returns
validate_config(config) ==
    IF config.kind # "dict"
    THEN ValueError("Configuration must be a dictionary", "")
    ELSE IF ~config.pvoutput.present
    THEN ValueError("Missing required configuration key: {key}", "pvoutput")
    ELSE IF ~config.tariffs.present
    THEN ValueError("Missing required configuration key: {key}", "tariffs")
    ELSE IF validate_pvoutput_config(config.pvoutput) # NoError
    THEN validate_pvoutput_config(config.pvoutput)
    ELSE IF validate_tariffs_config(config.tariffs) # NoError
    THEN validate_tariffs_config(config.tariffs)
    ELSE IF config.public_holidays.present
    THEN validate_public_holidays_config(config.public_holidays.query)
    ELSE NoError

\* the sections of a configuration
PvoutputOf(param) == [present |-> TRUE, kind |-> "dict", hasParam |-> TRUE, param |-> param]
TariffsOf(table) == [present |-> TRUE, kind |-> "dict", table |-> table]
HolidaysOf(q) == [present |-> TRUE, query |-> q]
Config(pvoutput_config, tariffs_config, holidays_config) ==
    [kind |-> "dict", pvoutput |-> pvoutput_config, tariffs |-> tariffs_config,
     public_holidays |-> holidays_config]

V1 == Param("v", TRUE, 1)
PlainOffpeak == Entry("offpeak", Tariff(OffpeakPrice, <<>>, NoDate, NoDate, "absent"))

\* a tariff with every pairing of seasonal fields: absent, a date, an ISO
\* date string, a string that is no date, a value of another type
SeasonValueSet ==
    {NoDate, DateVal(4), DateVal(6), StrVal(4), StrVal(6), BadStrVal, OtherVal}
SeasonalCandidates ==
    { Tariff(PriceSeq[3], <<DayWindow>>, sd, ed, wd) :
        sd \in SeasonValueSet, ed \in SeasonValueSet, wd \in {"absent", "True"} }

\* the pvoutput, tariffs and public_holidays sections, sound and defective
PvoutputSet ==
    { NoPvoutput,
      [present |-> TRUE, kind |-> "none", hasParam |-> FALSE, param |-> NoParam],
      [present |-> TRUE, kind |-> "dict", hasParam |-> FALSE, param |-> NoParam],
      PvoutputOf(NoParam), PvoutputOf(Param("x", TRUE, 1)), PvoutputOf(Param("v", FALSE, 0)),
      PvoutputOf(Param("v", TRUE, 0)), PvoutputOf(Param("v", TRUE, 13)),
      PvoutputOf(V1), PvoutputOf(Param("v", TRUE, 12)) }
DefectiveTariffsSet ==
    { NoTariffs,
      [present |-> TRUE, kind |-> "none", table |-> <<>>],
      [present |-> TRUE, kind |-> "list", table |-> <<>>],
      TariffsOf(<<>>),
      TariffsOf(<<Entry(NameSeq[3], Tariff(PriceSeq[3], <<DayWindow>>, NoDate, NoDate, "absent"))>>) }
HolidaysSet == {NoHolidays} \cup {HolidaysOf(q) : q \in CandidateQueries}

\* the configurations handed to validate_config
ValidateConfigSet ==
    { [kind |-> k, pvoutput |-> NoPvoutput, tariffs |-> NoTariffs,
       public_holidays |-> NoHolidays] : k \in {"none", "list", "dict"} }
    \cup { Config(PvoutputOf(V1), TariffsOf(InsertAt(<<Entry(NameSeq[3], tariff)>>, pos,
                                                     PlainOffpeak)), NoHolidays) :
             tariff \in SeasonalCandidates, pos \in 0 .. 1 }
    \cup { Config(pv, TariffsOf(<<PlainOffpeak>>), NoHolidays) : pv \in PvoutputSet }
    \cup { Config(PvoutputOf(V1), tc, NoHolidays) : tc \in DefectiveTariffsSet }
    \cup { Config(PvoutputOf(V1), TariffsOf(<<PlainOffpeak>>), h) : h \in HolidaysSet }

InitValidate ==
    /\ CallsIdle
    /\ HolidayIdle
    /\ validate_args \in ValidateConfigSet
    /\ validate_result = Pending
    /\ SendIdle
    /\ MainIdle

\* validate_config(config), lines 7-33
CallValidate ==
    /\ validate_result = Pending
    /\ validate_result' = validate_config(validate_args)
    /\ UNCHANGED <<callVars, holidayVars, validate_args, sendVars, mainVars>>

NextValidate == CallValidate

SpecValidate == InitValidate /\ [][NextValidate]_vars

----------------------------------------------------------------------------
(* send_price_to_pvoutput *)

\* the failures of requests.post: requests.exceptions.Timeout and
\* ConnectionError, both RequestException
TimeoutError == Exception("Timeout", "Request timed out", "")
ConnectionFailure == Exception("ConnectionError", "Network error", "")

\* response.raise_for_status(): HTTPError for a 4xx or 5xx status
raise_for_status(response) ==
    IF response.status_code >= 400 /\ response.status_code < 500
    THEN Exception("HTTPError", "{status_code} Client Error", "")
    ELSE IF response.status_code >= 500 /\ response.status_code < 600
    THEN Exception("HTTPError", "{status_code} Server Error", "")
    ELSE NoError

\* an except clause that raises an error of its own in place of `raise`
ReraiseWrapped(e) == Exception("RuntimeError", e.text, e.arg)

\* the bare `raise` of the except clauses: the exception being handled
Reraise(e) == e

\* now.strftime("%Y%m%d")
FormatDate(d) == [format |-> "%Y%m%d", ord |-> d]

\* the minute rounded to the nearest multiple of 5
FiveMinuteNearest(minute) == ((minute + 2) \div 5) * 5

\* line 142: minute = now.minute - now.minute % 5
FiveMinuteFloor(minute) == minute - (minute % 5)

\* lines 140-151: the body posted
RequestData(extended_param, price, now) ==
    [param |-> extended_param, price |-> price, d |-> FormatDate(now.date),
     t |-> <<now.time[1], FiveMinuteFloor(now.time[2])>>]

\* lines 153-167: what the call returns or raises when requests.post
\* behaves as `outcome`
send_price_to_pvoutput(outcome) ==
    LET raised == IF outcome.raises # NoError THEN outcome.raises
                  ELSE raise_for_status(outcome.response)
    IN  IF raised = NoError THEN SendReturned(outcome.response)
        ELSE IF raised.type = "Timeout" THEN SendRaised(Reraise(raised))
        ELSE IF raised.type = "HTTPError" THEN SendRaised(Reraise(raised))
        ELSE IF raised.type \in {"ConnectionError", "RequestException"}
             THEN SendRaised(Reraise(raised))
        ELSE SendRaised(raised)

PostOutcomeSet ==
    {PostReturns(200), PostReturns(401), PostReturns(500),
     PostRaises(TimeoutError), PostRaises(ConnectionFailure)}

\* minutes of the hour, and the arguments of the calls
SendDatetimeSet == [date : {4}, time : {0, 23} \X (0 .. 59) \X {0}]
SendArgsSet == [extended_param : {V1}, price : {0, OffpeakPrice}, now : SendDatetimeSet]

InitSend ==
    /\ CallsIdle
    /\ HolidayIdle
    /\ ValidateIdle
    /\ send_args \in SendArgsSet
    /\ post \in PostOutcomeSet
    /\ request = NoRequest
    /\ send_result = NoSendResult
    /\ MainIdle

\* send_price_to_pvoutput(api_key, system_id, extended_param, price, now)
CallSend ==
    /\ send_result = NoSendResult
    /\ request' = RequestData(send_args.extended_param, send_args.price, send_args.now)
    /\ send_result' = send_price_to_pvoutput(post)
    /\ UNCHANGED <<callVars, holidayVars, validateVars, send_args, post, mainVars>>

NextSend == CallSend

SpecSend == InitSend /\ [][NextSend]_vars

----------------------------------------------------------------------------
(* load_config and main *)

\* `not api_key or not system_id` with `is None` in place of `not`
CredentialsMissingNoneOnly(api_key, system_id) ==
    api_key = "None" \/ system_id = "None"

\* line 206: `not api_key or not system_id`; an option not given is None
CredentialsMissing(api_key, system_id) ==
    api_key \in {"None", ""} \/ system_id \in {"None", ""}

\* a loader that takes no parsed value for empty
ConfigIsEmptyNever(parsed) == FALSE

\* `not config` at line 61: None or a dict without any key
ConfigIsEmpty(parsed) ==
    \/ parsed.kind = "none"
    \/ /\ parsed.kind = "dict"
       /\ ~parsed.pvoutput.present
       /\ ~parsed.tariffs.present
       /\ ~parsed.public_holidays.present

\* load_config: the exception it raises, NoError when it returns the
\* configuration
load_config(file) ==
    IF file.state = "missing"
    THEN Exception("FileNotFoundError", "No such file or directory", "")
    ELSE IF file.state = "malformed"
    THEN Exception("YAMLError", "could not parse the document", "")
    ELSE IF ConfigIsEmpty(file.config)
    THEN ValueError("Configuration file is empty", "")
    ELSE validate_config(file.config)

\* lines 213-219: main's own checks of the loaded configuration
MainKeysError(loaded) ==
    IF ~loaded.tariffs.present
    THEN ValueError("Missing required config key: {key}", "tariffs")
    ELSE IF ~loaded.pvoutput.present
    THEN ValueError("Missing required config key: {key}", "pvoutput")
    ELSE IF loaded.pvoutput.kind # "dict"
    THEN Exception("TypeError", "argument of type 'NoneType' is not iterable", "")
    ELSE IF ~loaded.pvoutput.hasParam
    THEN ValueError("Missing 'extended_param' in pvoutput config", "")
    ELSE NoError

\* lines 224-227: `not tariffs`
MainTariffsError(loaded) ==
    IF loaded.tariffs.kind = "none"
       \/ (loaded.tariffs.kind = "dict" /\ Len(loaded.tariffs.table) = 0)
    THEN ValueError("Missing 'tariffs' in config", "")
    ELSE IF loaded.tariffs.kind # "dict"
    THEN Exception("TypeError", "pop expected at most 1 argument, got 2", "")
    ELSE NoError

\* `public_holidays or {}` on config.get("public_holidays")
HolidaysOrEmpty(section) ==
    IF ~section.present \/ section.query.isNone THEN EmptyQuery ELSE section.query

\* the exception an outcome of get_current_tariff stands for
ResultError(out) == Exception(out.error, out.error, "")

\* an exit status that is 0 whatever happened
ExitStatusZero(e) == 0

\* the exit status: 0 when main returns, 1 for the ClickException of line 245
ExitStatus(e) == IF e = NoError THEN 0 ELSE 1

\* lines 243-245: raise click.ClickException(str(e)); nothing for a return
ClickException(e) ==
    IF e = NoError THEN NoError ELSE Exception("ClickException", e.text, e.arg)

\* main ends: by returning (e is NoError) or through the except clause
Exit(e) ==
    /\ main_pc' = "exited"
    /\ exit_code' = ExitStatus(e)
    /\ message' = ClickException(e)

\* what main is run with
CredentialSet == {"None", "", "secret"}
MainFileSet == {FileMissing, FileMalformed} \cup {FileOf(c) : c \in ValidateConfigSet}
EnvSet == [api_key : CredentialSet, system_id : CredentialSet, file : MainFileSet]

InitMain ==
    /\ CallsIdle
    /\ HolidayIdle
    /\ ValidateIdle
    /\ SendIdle
    /\ env \in EnvSet
    /\ main_pc = "credentials"
    /\ load_result = NoLoadResult
    /\ main_config = NoConfig
    /\ current_tariff = 0
    /\ trace = <<>>
    /\ exit_code = -1
    /\ message = NoError

\* lines 205-208: the credentials check
MainCredentials ==
    /\ main_pc = "credentials"
    /\ trace' = Append(trace, "credentials")
    /\ IF CredentialsMissing(env.api_key, env.system_id)
       THEN Exit(Exception("ClickException", "Missing required API credentials", ""))
       ELSE main_pc' = "load" /\ UNCHANGED <<exit_code, message>>
    /\ UNCHANGED <<callVars, aux, env, load_result, main_config, current_tariff>>

\* line 210: config = load_config(config_path)
MainLoad ==
    /\ main_pc = "load"
    /\ trace' = Append(trace, "load")
    /\ IF env.file.state = "parsed" /\ ~ConfigIsEmpty(env.file.config)
       THEN /\ validate_args' = env.file.config
            /\ validate_result' = validate_config(env.file.config)
       ELSE UNCHANGED validateVars
    /\ IF load_config(env.file) # NoError
       THEN /\ load_result' = LoadRaised(load_config(env.file))
            /\ Exit(load_config(env.file))
            /\ UNCHANGED <<main_config, heap, table0, public_holidays>>
       ELSE /\ load_result' = LoadReturned(env.file.config)
            /\ main_config' = env.file.config
            /\ heap' = HeapOf(env.file.config.tariffs.table)
            /\ table0' = env.file.config.tariffs.table
            /\ public_holidays' = HolidaysOrEmpty(env.file.config.public_holidays)
            /\ main_pc' = "keys"
            /\ UNCHANGED <<exit_code, message>>
    /\ UNCHANGED <<pc, args, tariff_config_copy, offpeak, idx, result, prev, repeats,
                   period_args, period_result, holidayVars, sendVars, env, current_tariff>>

\* lines 212-219: the required keys
MainKeys ==
    /\ main_pc = "keys"
    /\ IF MainKeysError(main_config) # NoError
       THEN Exit(MainKeysError(main_config))
       ELSE main_pc' = "tariffs" /\ UNCHANGED <<exit_code, message>>
    /\ UNCHANGED <<callVars, aux, env, load_result, main_config, current_tariff, trace>>

\* lines 221-231: the clock is read, `tariffs` is checked and
\* get_current_tariff is called
MainTariffs ==
    /\ main_pc = "tariffs"
    /\ IF MainTariffsError(main_config) # NoError
       THEN /\ Exit(MainTariffsError(main_config))
            /\ UNCHANGED <<callVars, aux, trace>>
       ELSE /\ \E now \in DatetimeSet : Enter(MainThread, now)
            /\ main_pc' = "resolve"
            /\ trace' = Append(trace, "resolve")
            /\ UNCHANGED <<prev, repeats, exit_code, message>>
    /\ UNCHANGED <<env, load_result, main_config, current_tariff>>

\* get_current_tariff has returned or raised
MainResolved ==
    /\ main_pc = "resolve"
    /\ pc[MainThread] = "done"
    /\ IF result[MainThread].status = "returned"
       THEN /\ current_tariff' = result[MainThread].price
            /\ main_pc' = "send"
            /\ UNCHANGED <<exit_code, message>>
       ELSE /\ Exit(ResultError(result[MainThread]))
            /\ UNCHANGED current_tariff
    /\ UNCHANGED <<callVars, aux, env, load_result, main_config, trace>>

\* lines 233-241: send_price_to_pvoutput is called, and main returns
\* unless it raised
MainSend ==
    /\ main_pc = "send"
    /\ trace' = Append(trace, "upload")
    /\ send_args' = [extended_param |-> main_config.pvoutput.param,
                     price |-> current_tariff,
                     now |-> args[MainThread].current_datetime]
    /\ request' = RequestData(main_config.pvoutput.param, current_tariff,
                              args[MainThread].current_datetime)
    /\ \E outcome \in PostOutcomeSet :
           /\ post' = outcome
           /\ send_result' = send_price_to_pvoutput(outcome)
           /\ Exit(send_price_to_pvoutput(outcome).error)
    /\ UNCHANGED <<callVars, holidayVars, validateVars, env, load_result, main_config, current_tariff>>

NextMain ==
    \/ MainCredentials
    \/ MainLoad
    \/ MainKeys
    \/ MainTariffs
    \/ Pop(MainThread)
    \/ LoopStep(MainThread)
    \/ Fallback(MainThread)
    \/ MainResolved
    \/ MainSend

SpecMain == InitMain /\ [][NextMain]_vars

----------------------------------------------------------------------------
(* What the claims speak of, stated without the code's operators *)

SecondOfDay(time) == 3600 * time[1] + 60 * time[2] + time[3]
StrSecondOfDay(str) == 3600 * str[1] + 60 * str[2]

\* the window start-end contains the clock time, bounds inclusive, wrapping
\* past midnight when start is later than end
WindowContains(period, time) ==
    LET t == SecondOfDay(time)
        s == StrSecondOfDay(period.start)
        e == StrSecondOfDay(period.end)
    IN  IF s <= e THEN s <= t /\ t <= e ELSE t >= s \/ t <= e

InSomeWindow(tariff, time) ==
    \E i \in 1 .. Len(tariff.times) : WindowContains(tariff.times[i], time)

IsSeasonal(tariff) ==
    tariff.start_date.kind # "absent" \/ tariff.end_date.kind # "absent"

\* the calendar lists the day as a public holiday under the query
HolidayOn(q, d) ==
    /\ ~q.isNone /\ q.hasCountry /\ q.country # ""
    /\ CalendarKnows(q.country, RegionOf(q))
    /\ d \in CountryHolidays(q.country, RegionOf(q))

\* the three gates of a seasonal tariff
GatesHold(tariff, q, d) ==
    /\ ~HolidayOn(q, d)
    /\ (tariff.weekdays_only # "True" \/ Weekday(d) \in 0 .. 4)
    /\ tariff.start_date.ord <= d
    /\ d <= tariff.end_date.ord

\* the activation rules of a tariff are satisfied
RulesSatisfied(tariff, q, now) ==
    /\ InSomeWindow(tariff, now.time)
    /\ IsSeasonal(tariff) => GatesHold(tariff, q, now.date)

IsOther(e) == e.name # "offpeak"
\* the tariffs of the caller's table besides 'offpeak', in insertion order
Others == SelectSeq(table0, IsOther)
HasOffpeak == \E i \in 1 .. Len(table0) : table0[i].name = "offpeak"
OffpeakEntry == table0[CHOOSE i \in 1 .. Len(table0) : table0[i].name = "offpeak"]

Done(t) == pc[t] = "done"
Now(t) == args[t].current_datetime
Query(t) == args[t].public_holidays
Wins(t, i) == RulesSatisfied(Others[i].tariff, Query(t), Now(t))
NoneWinsBefore(t, i) == \A j \in 1 .. (i - 1) : ~Wins(t, j)
\* the dict the loop of caller t walks
Walked(t) == heap[tariff_config_copy[t]]

----------------------------------------------------------------------------
(* Claims *)

\* C8: for minute-resolution t, start, end: when start <= end,
\* is_time_in_period is true exactly for start <= t <= end; when start > end,
\* exactly for t >= start or t <= end.
C8_PeriodContains ==
    (period_result # "none" /\ period_args.current_time[3] = 0) =>
        LET t == 60 * period_args.current_time[1] + period_args.current_time[2]
            s == 60 * period_args.start_str[1] + period_args.start_str[2]
            e == 60 * period_args.end_str[1] + period_args.end_str[2]
        IN  (period_result = "True") <=>
                IF s <= e THEN s <= t /\ t <= e ELSE t >= s \/ t <= e

\* witness of C8: an overnight window matched at its inclusive end, after midnight
C8_Witness ==
    /\ period_result = "True"
    /\ period_args.current_time[3] = 0
    /\ period_args.start_str = <<1, 0>>
    /\ period_args.end_str = <<0, 1>>
    /\ period_args.current_time = <<0, 1, 0>>

\* C1: a finished call returns the price of the first tariff, in insertion
\* order and leaving 'offpeak' out, whose activation rules are satisfied at
\* `now`; of two tariffs whose windows both contain `now` the earlier wins.
C1_FirstMatchWins ==
    \A t \in Threads : Done(t) =>
        \A i \in 1 .. Len(Others) :
            (Wins(t, i) /\ NoneWinsBefore(t, i)) =>
                result[t] = Returned(Others[i].tariff.price)

\* witness of C1: two tariffs are both satisfied at `now`, the call returned
\* the price of the earlier one, which differs from the later one's
C1_Witness ==
    \E t \in Threads :
        /\ Done(t)
        /\ Len(Others) >= 2
        /\ Wins(t, 1) /\ Wins(t, 2)
        /\ Others[1].tariff.price # Others[2].tariff.price
        /\ result[t] = Returned(Others[1].tariff.price)

\* C2: a seasonal tariff whose window contains `now` wins if and only if
\* the date is no public holiday, weekdays_only is false or the day is
\* Monday-Friday, and start_date <= date <= end_date, both inclusive.
C2_SeasonalWinsIff ==
    \A t \in Threads : pc[t] \in {"loop", "done"} =>
        \A i \in 1 .. Len(Walked(t)) :
            LET tariff == Walked(t)[i].tariff
                gates == GatesHold(tariff, Query(t), Now(t).date)
            IN  (IsSeasonal(tariff) /\ InSomeWindow(tariff, Now(t).time)) =>
                    \* the loop ended at this tariff: the gates hold, its price is returned
                    /\ (Done(t) /\ idx[t] = i) =>
                           (gates /\ result[t] = Returned(tariff.price))
                    \* the loop went past this tariff: a gate failed
                    /\ idx[t] > i => ~gates

\* witness of C2: a seasonal tariff won on the last day of its season, with
\* a calendar that was consulted
C2_Witness ==
    \E t \in Threads :
        /\ Done(t)
        /\ idx[t] \in 1 .. Len(Walked(t))
        /\ IsSeasonal(Walked(t)[idx[t]].tariff)
        /\ Now(t).date = Walked(t)[idx[t]].tariff.end_date.ord
        /\ Query(t) = NSWQuery
        /\ result[t] = Returned(Walked(t)[idx[t]].tariff.price)

\* C3: a seasonal tariff whose window matches but one of whose gates fails is
\* skipped and the search goes on: the first later tariff whose rules are
\* satisfied wins, and the fallback is used only if no later tariff wins.
C3_SkipContinues ==
    \A t \in Threads : Done(t) =>
        \A i \in 1 .. Len(Others) :
            LET tariff == Others[i].tariff
            IN  ( /\ IsSeasonal(tariff)
                  /\ InSomeWindow(tariff, Now(t).time)
                  /\ ~GatesHold(tariff, Query(t), Now(t).date)
                  /\ NoneWinsBefore(t, i) ) =>
                    IF \E j \in (i + 1) .. Len(Others) : Wins(t, j)
                    THEN \E j \in (i + 1) .. Len(Others) :
                            /\ Wins(t, j)
                            /\ \A k \in (i + 1) .. (j - 1) : ~Wins(t, k)
                            /\ result[t] = Returned(Others[j].tariff.price)
                    ELSE result[t] = Returned(IF HasOffpeak THEN OffpeakEntry.tariff.price
                                              ELSE 0)

\* witness of C3: the first tariff is seasonal, its window contains `now`,
\* a gate fails, and the call returned the price of the tariff after it
C3_Witness ==
    \E t \in Threads :
        /\ Done(t)
        /\ Len(Others) >= 2
        /\ IsSeasonal(Others[1].tariff)
        /\ InSomeWindow(Others[1].tariff, Now(t).time)
        /\ ~GatesHold(Others[1].tariff, Query(t), Now(t).date)
        /\ Wins(t, 2)
        /\ result[t] = Returned(Others[2].tariff.price)

\* C4: a tariff without seasonal range whose window contains `now`, not
\* preceded by a winning tariff, wins: its price is returned whatever the
\* date, the weekday and the holiday status of `now`.
C4_PlainWinsImmediately ==
    \A t \in Threads : Done(t) =>
        \A i \in 1 .. Len(Others) :
            ( /\ ~IsSeasonal(Others[i].tariff)
              /\ InSomeWindow(Others[i].tariff, Now(t).time)
              /\ NoneWinsBefore(t, i) ) =>
                result[t] = Returned(Others[i].tariff.price)

\* witness of C4: a tariff without seasonal range that declares
\* weekdays_only won on a Sunday that is a public holiday
C4_Witness ==
    \E t \in Threads :
        /\ Done(t)
        /\ Len(Others) >= 1
        /\ ~IsSeasonal(Others[1].tariff)
        /\ Others[1].tariff.weekdays_only = "True"
        /\ Weekday(Now(t).date) = 6
        /\ HolidayOn(Query(t), Now(t).date)
        /\ result[t] = Returned(Others[1].tariff.price)

\* C5: the time condition of a tariff holds if and only if `now`'s time lies
\* inside at least one of its periods; a tariff with no period never matches.
C5_AnyPeriodMatches ==
    \A t \in Threads : pc[t] \in {"loop", "done"} =>
        \A i \in 1 .. Len(Walked(t)) :
            LET tariff == Walked(t)[i].tariff
                inside == InSomeWindow(tariff, Now(t).time)
            IN  \* the code's test agrees with the claim's condition
                /\ AnyPeriod(tariff.times, Now(t).time, 1) <=> inside
                \* the loop ended at this tariff: some period contains `now`
                /\ (Done(t) /\ idx[t] = i) => (inside /\ Len(tariff.times) > 0)
                \* the loop went past a tariff without season: no period contains `now`
                /\ (idx[t] > i /\ ~IsSeasonal(tariff)) => ~inside

\* witness of C5: the winning tariff's first period does not contain `now`,
\* its second period does
C5_Witness ==
    \E t \in Threads :
        /\ Done(t)
        /\ idx[t] \in 1 .. Len(Walked(t))
        /\ Len(Walked(t)[idx[t]].tariff.times) = 2
        /\ ~WindowContains(Walked(t)[idx[t]].tariff.times[1], Now(t).time)
        /\ WindowContains(Walked(t)[idx[t]].tariff.times[2], Now(t).time)
        /\ result[t] = Returned(Walked(t)[idx[t]].tariff.price)

\* C6: 'offpeak' is never tested against windows or seasonal rules; its
\* price is returned exactly when no other tariff of the table wins,
\* whatever the offpeak entry itself declares.
C6_OffpeakOnlyFallback ==
    \A t \in Threads :
        /\ pc[t] \in {"loop", "done"} =>
               \A i \in 1 .. Len(Walked(t)) : Walked(t)[i].name # "offpeak"
        /\ (Done(t) /\ HasOffpeak) =>
               ( result[t] = Returned(OffpeakEntry.tariff.price)
                   <=> \A i \in 1 .. Len(Others) : ~Wins(t, i) )

\* witness of C6: the offpeak entry comes first and declares a window that
\* contains `now`, and the call returned the price of a later tariff
C6_Witness ==
    \E t \in Threads :
        /\ Done(t)
        /\ Len(table0) >= 2
        /\ table0[1].name = "offpeak"
        /\ InSomeWindow(table0[1].tariff, Now(t).time)
        /\ result[t].status = "returned"
        /\ result[t].price = table0[2].tariff.price
        /\ result[t].price # table0[1].tariff.price

\* C7: on a table without 'offpeak' the call returns 0.0, and does not
\* fail, whenever no tariff of the table wins at `now`.
C7_NoOffpeakZero ==
    \A t \in Threads :
        (Done(t) /\ ~HasOffpeak /\ \A i \in 1 .. Len(Others) : ~Wins(t, i)) =>
            result[t] = Returned(0)

\* witness of C7: a table without 'offpeak' whose only tariff's window does
\* not contain `now`; the call returned 0
C7_Witness ==
    \E t \in Threads :
        /\ Done(t)
        /\ ~HasOffpeak
        /\ Len(table0) = 1
        /\ Len(table0[1].tariff.times) > 0
        /\ ~InSomeWindow(table0[1].tariff, Now(t).time)
        /\ result[t] = Returned(0)

\* C9: get_current_tariff never modifies the caller's table: it keeps its
\* entries in their order, 'offpeak' included, and a call repeated with the
\* same table, holiday query and timestamp returns the same price.
C9_TableUntouched ==
    /\ heap[TableRef] = table0
    /\ \A t \in Threads : (Done(t) /\ repeats[t] > 0) => result[t] = prev[t]

\* witness of C9: a repeated call on a table that holds 'offpeak' returned
\* the fallback price both times
C9_Witness ==
    \E t \in Threads :
        /\ Done(t)
        /\ repeats[t] > 0
        /\ HasOffpeak
        /\ Len(Others) >= 1
        /\ prev[t] = Returned(OffpeakEntry.tariff.price)
        /\ result[t] = prev[t]

\* C10: on every table validate_config accepts, with every validated
\* holiday query and every timestamp, the call returns a price and raises
\* no error.
C10_ValidatedNeverRaises ==
    \A t \in Threads : Done(t) => result[t].status = "returned"

\* the price the claims expect of a call: that of the first tariff besides
\* 'offpeak' whose rules are satisfied, else the offpeak price, else 0
ClaimedPrice(t) ==
    IF \E i \in 1 .. Len(Others) : Wins(t, i)
    THEN Others[CHOOSE i \in 1 .. Len(Others) : Wins(t, i) /\ NoneWinsBefore(t, i)].tariff.price
    ELSE IF HasOffpeak THEN OffpeakEntry.tariff.price ELSE 0

\* the query names a country, and the calendar knows no such country or region
CalendarCannotAnswer(q) ==
    /\ ~q.isNone /\ q.hasCountry /\ q.country # ""
    /\ ~CalendarKnows(q.country, RegionOf(q))

\* every season of the tariffs besides 'offpeak' is given as dates
SeasonsAreDates ==
    \A i \in 1 .. Len(Others) :
        /\ Others[i].tariff.start_date.kind # "str"
        /\ Others[i].tariff.end_date.kind # "str"

\* C11: when the calendar cannot answer the query (unknown country or
\* region) the call does not fail and returns the price it returns for a
\* date that is no holiday.  Stated for tables whose seasons are dates, so
\* that the string dates of C10 play no part.
C11_UnanswerableAsNoHoliday ==
    \A t \in Threads :
        (Done(t) /\ CalendarCannotAnswer(Query(t)) /\ SeasonsAreDates) =>
            result[t] = Returned(ClaimedPrice(t))

\* C12: is_public_holiday returns False, raises nothing and does not
\* consult the calendar whenever the query is None, is empty, or has no
\* country or an empty one, whatever region it names.
C12_NoCountryNoLookup ==
    LET q == holiday_args.public_holidays
    IN  (holiday_result # "none" /\ (q.isNone \/ ~q.hasCountry \/ q.country = "")) =>
            holiday_result = "False" /\ ~holiday_consulted

\* a call made with a region but an empty country
C12_Witness ==
    LET q == holiday_args.public_holidays
    IN  /\ holiday_result = "False"
        /\ ~q.isNone /\ q.hasCountry /\ q.country = "" /\ q.hasRegion

\* C13: however the calls of several threads on one shared table
\* interleave, every call returns what a call running alone returns for
\* its arguments, and the shared table is never seen modified.
C13_ConcurrentCallsAgree ==
    /\ heap[TableRef] = table0
    /\ KeyIndex(heap[TableRef], "offpeak", 1) # 0
    /\ \A t \in Threads :
           Done(t) => result[t] = get_current_tariff(table0, args[t].public_holidays,
                                                     args[t].current_datetime)

\* one call has finished on the fallback while another is inside its loop
C13_Witness ==
    \E t1 \in Threads, t2 \in Threads :
        /\ t1 # t2
        /\ Done(t1) /\ result[t1] = Returned(OffpeakPrice)
        /\ pc[t2] = "loop" /\ idx[t2] > 1

\* C14: a tariff whose weekdays_only is true never wins when `now` falls on
\* a Saturday or a Sunday.
C14_WeekdaysOnlyNeverOnWeekend ==
    \A t \in Threads : Done(t) =>
        \A i \in 1 .. Len(Others) :
            (Others[i].tariff.weekdays_only = "True" /\ Weekday(Now(t).date) >= 5) =>
                result[t] # Returned(Others[i].tariff.price)

\* C14 as the code has it: a tariff with a seasonal range whose
\* weekdays_only is true never wins when `now` falls on a Saturday or a
\* Sunday; without a seasonal range weekdays_only is not looked at.
C14_SeasonalWeekdaysOnlyNeverOnWeekend ==
    \A t \in Threads : Done(t) =>
        \A i \in 1 .. Len(Others) :
            ( /\ IsSeasonal(Others[i].tariff)
              /\ Others[i].tariff.weekdays_only = "True"
              /\ Weekday(Now(t).date) >= 5 ) =>
                result[t] # Returned(Others[i].tariff.price)

\* a seasonal weekdays_only tariff, first in the table, was passed over on a
\* Saturday inside its range and its window that is no holiday
C14_Witness ==
    \E t \in Threads :
        /\ Done(t)
        /\ Len(Others) >= 1
        /\ IsSeasonal(Others[1].tariff)
        /\ Others[1].tariff.weekdays_only = "True"
        /\ InSomeWindow(Others[1].tariff, Now(t).time)
        /\ Weekday(Now(t).date) = 5
        /\ ~HolidayOn(Query(t), Now(t).date)
        /\ Others[1].tariff.start_date.ord <= Now(t).date
        /\ Now(t).date <= Others[1].tariff.end_date.ord
        /\ result[t].status = "returned"
        /\ result[t] # Returned(Others[1].tariff.price)

\* the seasonal fields of a tariff are both absent, or both hold a date (or
\* an ISO date string) and the start lies strictly before the end
SeasonalFieldsOk(tariff) ==
    \/ tariff.start_date.kind = "absent" /\ tariff.end_date.kind = "absent"
    \/ /\ tariff.start_date.kind \in {"date", "str"}
       /\ tariff.end_date.kind \in {"date", "str"}
       /\ tariff.start_date.ord < tariff.end_date.ord

\* the configuration is a dict whose tariffs section is a dict
HasTable(config) ==
    config.kind = "dict" /\ config.tariffs.present /\ config.tariffs.kind = "dict"

\* the configuration is sound in everything but its tariffs' seasonal fields
SoundButSeasons(config) ==
    /\ HasTable(config)
    /\ config.pvoutput.present /\ validate_pvoutput_config(config.pvoutput) = NoError
    /\ KeyIndex(config.tariffs.table, "offpeak", 1) # 0
    /\ ~config.public_holidays.present

\* C16: validate_config accepts the seasonal fields of a tariff only when
\* both are absent, or both are present with the start strictly before
\* the end; every other combination (one field alone, equal dates, the
\* start after the end) raises ValueError.
C16_SeasonalFieldsValidated ==
    LET table == validate_args.tariffs.table
        all_ok == \A i \in 1 .. Len(table) : SeasonalFieldsOk(table[i].tariff)
    IN  validate_result # Pending =>
            /\ (validate_result = NoError /\ HasTable(validate_args)) => all_ok
            /\ SoundButSeasons(validate_args) =>
                   /\ all_ok => validate_result = NoError
                   /\ ~all_ok => validate_result.type = "ValueError"

\* a tariff whose start_date equals its end_date was rejected
C16_Witness ==
    /\ validate_result.type = "ValueError"
    /\ SoundButSeasons(validate_args)
    /\ \E i \in 1 .. Len(validate_args.tariffs.table) :
           LET tariff == validate_args.tariffs.table[i].tariff
           IN  /\ tariff.start_date.kind \in {"date", "str"}
               /\ tariff.end_date.kind \in {"date", "str"}
               /\ tariff.start_date.ord = tariff.end_date.ord

\* C17: when the upload fails (requests.post times out or fails otherwise,
\* or the response carries an HTTP error status) send_price_to_pvoutput
\* raises that same exception, unchanged, and returns no response.
C17_UploadFailurePropagates ==
    send_result # NoSendResult =>
        /\ post.raises # NoError =>
               send_result = [status |-> "raised", response |-> NoResponse,
                              error |-> post.raises]
        /\ (post.raises = NoError /\ post.response.status_code >= 400) =>
               /\ send_result.status = "raised"
               /\ send_result.response = NoResponse
               /\ send_result.error = raise_for_status(post.response)
               /\ send_result.error.type = "HTTPError"

\* a call whose request timed out has raised
C17_Witness ==
    /\ send_result.status = "raised"
    /\ post.raises.type = "Timeout"
    /\ request # NoRequest

\* C15: validate_config raises ValueError for every configuration whose
\* tariffs section is no mapping, is empty or has no 'offpeak'; so every
\* table that passed has the fallback, and a resolution that runs out of
\* tariffs returns the offpeak price, never the default 0.
C15_FallbackGuaranteed ==
    LET t == MainThread
        section == validate_args.tariffs
    IN  /\ ( /\ validate_result # Pending
             /\ validate_args.kind = "dict" /\ section.present
             /\ \/ section.kind # "dict"
                \/ Len(section.table) = 0
                \/ ~\E i \in 1 .. Len(section.table) : section.table[i].name = "offpeak" ) =>
                /\ validate_result.type = "ValueError"
                /\ pc[t] = "idle" /\ result[t] = NoResult
        /\ validate_result = NoError =>
               \E i \in 1 .. Len(section.table) : section.table[i].name = "offpeak"
        /\ (pc[t] = "done" /\ idx[t] > Len(heap[tariff_config_copy[t]])) =>
               /\ offpeak[t].present
               /\ result[t] = Returned(offpeak[t].tariff.price)

\* a run of main ended on a tariffs section without 'offpeak'
C15_Witness ==
    /\ main_pc = "exited"
    /\ validate_args.tariffs.kind = "dict"
    /\ Len(validate_args.tariffs.table) > 0
    /\ validate_result =
           ValueError("tariffs must include an 'offpeak' tariff as fallback", "")

\* main was started without an API key or without a system id (None or "")
StartedWithoutCredentials ==
    /\ main_pc # "idle"
    /\ env.api_key \in {"None", ""} \/ env.system_id \in {"None", ""}

\* C18: when the API key or the system id is missing or empty, main ends
\* with a non-zero exit status and the message 'Missing required API
\* credentials'; the configuration is never loaded, no tariff is resolved
\* and no upload is attempted.
C18_NoCredentialsNoWork ==
    StartedWithoutCredentials =>
        /\ main_config = NoConfig /\ validate_result = Pending
        /\ pc[MainThread] = "idle" /\ result[MainThread] = NoResult
        /\ request = NoRequest /\ send_result = NoSendResult
        /\ \A i \in 1 .. Len(trace) : trace[i] = "credentials"
        /\ main_pc \in {"credentials", "exited"}
        /\ main_pc = "exited" =>
               /\ exit_code \notin {0, -1}
               /\ message = Exception("ClickException", "Missing required API credentials", "")

\* a run with a key and an empty system id has ended
C18_Witness ==
    /\ main_pc = "exited"
    /\ env.api_key = "secret" /\ env.system_id = ""
    /\ exit_code = 1

\* main was started with both credentials on a file that parses into a
\* dict with some key
StartedOnConfig ==
    /\ main_pc # "idle"
    /\ ~StartedWithoutCredentials
    /\ env.file.state = "parsed"
    /\ env.file.config.kind = "dict"
    /\ \/ env.file.config.pvoutput.present
       \/ env.file.config.tariffs.present
       \/ env.file.config.public_holidays.present

\* C19: run with credentials, main reports each structural defect of the
\* configuration with its own message and a non-zero exit status: 'Missing
\* required config key: <key>' for a configuration without `tariffs` or
\* without `pvoutput`, "Missing 'extended_param' in pvoutput config" for a
\* pvoutput section without extended_param, "Missing 'tariffs' in config"
\* for a `tariffs` that is None.
C19_MainReportsDefects ==
    LET c == env.file.config
        Reports(text, arg) ==
            exit_code \notin {0, -1} /\ message = Exception("ClickException", text, arg)
    IN  (StartedOnConfig /\ main_pc = "exited") =>
            /\ ~c.tariffs.present => Reports("Missing required config key: {key}", "tariffs")
            /\ (c.tariffs.present /\ ~c.pvoutput.present) =>
                   Reports("Missing required config key: {key}", "pvoutput")
            /\ ( /\ c.tariffs.present /\ c.tariffs.kind = "dict"
                 /\ c.pvoutput.present /\ c.pvoutput.kind = "dict"
                 /\ ~c.pvoutput.hasParam ) =>
                   Reports("Missing 'extended_param' in pvoutput config", "")
            /\ ( /\ c.tariffs.present /\ c.tariffs.kind = "none"
                 /\ c.pvoutput.present /\ c.pvoutput.kind = "dict"
                 /\ c.pvoutput.hasParam ) =>
                   Reports("Missing 'tariffs' in config", "")

\* the steps of main in their order
MainSteps == <<"credentials", "load", "resolve", "upload">>

\* C20: in every run of main the steps happen in the order credentials
\* check, configuration load, tariff resolution, upload; the upload is
\* made exactly once when every earlier step succeeded and never
\* otherwise; and main exits with status 0 exactly when the upload
\* returned without error.
C20_StepsInOrder ==
    /\ Len(trace) <= Len(MainSteps)
    /\ \A i \in 1 .. Len(trace) : trace[i] = MainSteps[i]
    /\ (request # NoRequest \/ send_result # NoSendResult) <=> Len(trace) = Len(MainSteps)
    /\ Len(trace) = Len(MainSteps) =>
           /\ ~StartedWithoutCredentials
           /\ validate_result = NoError
           /\ result[MainThread].status = "returned"
    /\ main_pc # "exited" => exit_code = -1
    /\ main_pc = "exited" =>
           /\ exit_code \in {0, 1}
           /\ ( /\ ~StartedWithoutCredentials
                /\ validate_result = NoError
                /\ result[MainThread].status = "returned" ) => Len(trace) = Len(MainSteps)
           /\ exit_code = 0 <=> send_result.status = "returned"

\* a run went through all four steps and ended with status 0
C20_Witness ==
    /\ main_pc = "exited"
    /\ trace = MainSteps
    /\ exit_code = 0
    /\ send_result.status = "returned"

\* load_config has been called
Loaded == load_result # NoLoadResult

\* C21: load_config returns a configuration only if the file exists,
\* parses as YAML, is not empty and passes validate_config; otherwise it
\* raises (FileNotFoundError, the YAML error, ValueError 'Configuration
\* file is empty', or the ValueError of validation) and returns nothing;
\* so no table reaches the resolver through load_config unvalidated.
C21_LoadReturnsOnlyValidated ==
    LET file == env.file
        empty == \/ file.config.kind = "none"
                 \/ /\ file.config.kind = "dict"
                    /\ ~file.config.pvoutput.present
                    /\ ~file.config.tariffs.present
                    /\ ~file.config.public_holidays.present
    IN  /\ Loaded =>
            /\ file.state = "missing" =>
                   load_result.error.type = "FileNotFoundError"
            /\ file.state = "malformed" => load_result.error.type = "YAMLError"
            /\ (file.state = "parsed" /\ empty) =>
                   load_result.error = ValueError("Configuration file is empty", "")
            /\ (file.state = "parsed" /\ ~empty) =>
                   /\ validate_args = file.config
                   /\ validate_result # Pending
                   /\ load_result.error = validate_result
                   /\ validate_result.type \in {"None", "ValueError"}
            /\ load_result.status = "raised" =>
                   /\ load_result.error # NoError
                   /\ load_result.config = NoConfig /\ main_config = NoConfig
                   /\ main_pc = "exited"
            /\ load_result.status = "returned" =>
                   /\ file.state = "parsed" /\ ~empty
                   /\ validate_result = NoError
                   /\ load_result.config = file.config
        /\ pc[MainThread] # "idle" =>
               /\ load_result.status = "returned"
               /\ validate_result = NoError
               /\ table0 = validate_args.tariffs.table

\* load_config raised on an empty file and main ended
C21_Witness ==
    /\ env.file.state = "parsed"
    /\ env.file.config.kind = "none"
    /\ load_result.status = "raised"
    /\ main_pc = "exited"

\* the timestamp cut down to its whole minute
WholeMinute(now) == [date |-> now.date, time |-> <<now.time[1], now.time[2], 0>>]

\* C22: resolution has minute granularity: a call at a timestamp with
\* seconds returns the price of the call at that timestamp's whole minute.
C22_MinuteGranularity ==
    \A t \in Threads : Done(t) =>
        result[t] = get_current_tariff(table0, Query(t), WholeMinute(Now(t)))

\* C23: the result does not depend on where 'offpeak' sits in the table:
\* with 'offpeak' moved to any position and the other tariffs kept in
\* their order, the call returns the same for the same timestamp and query.
C23_OffpeakPositionIrrelevant ==
    \A t \in Threads : (Done(t) /\ HasOffpeak) =>
        \A pos \in 0 .. Len(Others) :
            result[t] = get_current_tariff(InsertAt(Others, pos, OffpeakEntry),
                                           Query(t), Now(t))

\* a call on a table of three entries that opens with 'offpeak' fell back
\* to the offpeak price
C23_Witness ==
    \E t \in Threads :
        /\ Done(t)
        /\ Len(table0) >= 3
        /\ table0[1].name = "offpeak"
        /\ result[t] = Returned(OffpeakEntry.tariff.price)

\* the clock time lies in the part after midnight of an overnight window
\* (start later than end) of the tariff
AfterMidnightInWindow(tariff, time) ==
    \E j \in 1 .. Len(tariff.times) :
        /\ StrSecondOfDay(tariff.times[j].start) > StrSecondOfDay(tariff.times[j].end)
        /\ SecondOfDay(time) <= StrSecondOfDay(tariff.times[j].end)

\* C24: for a seasonal tariff with an overnight window, at a time after
\* midnight inside the window, the holiday, weekday and date-range
\* conditions are those of the calendar date of `now` itself: the tariff
\* (when none before it wins) wins exactly when they hold for that date.
C24_OvernightUsesOwnDate ==
    \A t \in Threads : Done(t) =>
        \A i \in 1 .. Len(Others) :
            ( /\ IsSeasonal(Others[i].tariff)
              /\ AfterMidnightInWindow(Others[i].tariff, Now(t).time)
              /\ NoneWinsBefore(t, i) ) =>
                ( result[t] = Returned(Others[i].tariff.price)
                    <=> GatesHold(Others[i].tariff, Query(t), Now(t).date) )

\* a seasonal tariff with an overnight window won at midnight opening its
\* start_date
C24_Witness ==
    \E t \in Threads :
        /\ Done(t)
        /\ Len(Others) >= 1
        /\ IsSeasonal(Others[1].tariff)
        /\ AfterMidnightInWindow(Others[1].tariff, Now(t).time)
        /\ Now(t).date = Others[1].tariff.start_date.ord
        /\ result[t] = Returned(Others[1].tariff.price)

\* no tariff besides 'offpeak' is seasonal with a window that contains the
\* clock time
NoSeasonalInWindow(time) ==
    \A i \in 1 .. Len(Others) :
        ~(IsSeasonal(Others[i].tariff) /\ InSomeWindow(Others[i].tariff, time))

\* C25: the holiday calendar matters only for a seasonal tariff whose
\* window contains `now`: on a table without seasonal tariff, or at a time
\* no seasonal tariff's window contains, the call returns the same price
\* under every holiday query, one the calendar cannot answer included.
C25_HolidayQueryIrrelevant ==
    \A t \in Threads : (Done(t) /\ NoSeasonalInWindow(Now(t).time)) =>
        /\ result[t].status = "returned"
        /\ \A q \in CandidateQueries :
               result[t] = get_current_tariff(table0, q, Now(t))

\* a call under a query the calendar cannot answer returned, on a table
\* whose seasonal tariff has no window containing the time
C25_Witness ==
    \E t \in Threads :
        /\ Done(t)
        /\ CalendarCannotAnswer(Query(t))
        /\ NoSeasonalInWindow(Now(t).time)
        /\ \E i \in 1 .. Len(Others) : IsSeasonal(Others[i].tariff)
        /\ result[t].status = "returned"

\* C26: the timestamp sent is `now` rounded down to its 5-minute slot: the
\* minute sent is the largest multiple of 5 not above now's minute (one
\* of 00, 05, ..., 55, at most 4 below now's minute); the hour and the date
\* sent are those of `now`.
C26_FiveMinuteSlot ==
    LET now == send_args.now
        sent == request.t[2]
    IN  request # NoRequest =>
            /\ sent \in {5 * k : k \in 0 .. 11}
            /\ sent <= now.time[2]
            /\ now.time[2] - sent <= 4
            /\ \A k \in 0 .. 11 : 5 * k <= now.time[2] => 5 * k <= sent
            /\ request.t[1] = now.time[1]
            /\ request.d.ord = now.date

\* a request made at 23:58 was sent for 23:55
C26_Witness ==
    /\ request # NoRequest
    /\ send_args.now.time[1] = 23 /\ send_args.now.time[2] = 58
    /\ request.t = <<23, 55>>

====
